---- MODULE Spec2Model ----
(***************************************************************************)
(* Model of the element core of rod (src/unnamed/part_000, package rod).   *)
(*                                                                         *)
(*   Spec        Element.ensureParentPage: the depth-first search over the *)
(*               iframe tree that re-homes an element handle.              *)
(*   SpecStable  Element.WaitStableE: the ticker-driven stability loop.    *)
(*   SpecPoll    Element.WaitE polling next to Element.ReleaseE.           *)
(*   SpecChain   the interaction chains FocusE, ClickE, PressE, InputE,    *)
(*               SelectE, SelectTextE, SelectAllTextE.                     *)
(*   SpecBox     Element.BoxE as a function of the box-model query.        *)
(*   SpecResource  concurrent calls of Element.ResourceE on one page.      *)
(***************************************************************************)
EXTENDS Integers, Sequences, FiniteSets, TLC

\* ---------------------------------------------------------------- bounds
\* largest number of iframe elements in the frame tree
MaxFrames == 3
\* largest number of collaborator calls that fail in one run
MaxFaults == 2
\* largest number of Box samples WaitStableE takes in one run
MaxSamples == 3
\* largest number of evaluations of the predicate in one run of WaitE
MaxPolls == 3
\* number of ResourceE calls that run concurrently on elements of one page
ResCalls == 2

\* ---------------------------------------------------------------- values
\* error values: nil, the io.EOF value the walk uses as its found signal,
\* any other error of the protocol client, and the context's error
Nil == "nil"
EOF == "EOF"
ProtocolError == "ProtocolError"
Canceled == "Canceled"
\* the errors a collaborator call of the frame walk can fail with
CallErrors == {EOF, ProtocolError}

\* the page the element is bound to when ensureParentPage is called
RootPage == 0
\* remote object ids: the empty id, the id the element holds at the call,
\* and the id resolveNode yields inside iframe f
EmptyID == <<>>
OrigID == <<0>>
ObjIn(f) == <<f>>

\* type Box, lines 360-365
Box(t, l, w, h) == [Top |-> t, Left |-> l, Width |-> w, Height |-> h]

VARIABLES
  \* --- ensureParentPage
  n,            \* number of iframe elements of the frame tree
  parent,       \* parent[f]: the frame (0 = the root page) holding iframe f
  resolves,     \* the iframes in whose context nodeID resolves
  pc,           \* position of ensureParentPage
  has,          \* outcome of el.page.hasElement(objID)
  stack,        \* activation records of walk, innermost last
  elPage,       \* el.page
  elObjectID,   \* el.ObjectID
  calls,        \* the collaborator calls the walk made, in order
  enumerated,   \* the iframe handles ElementsE handed out
  walkErr,      \* what walk(el.page) returned
  result,       \* what ensureParentPage returned
  \* --- WaitStableE
  wpc,          \* position of WaitStableE
  ctxDone,      \* el.ctx is canceled
  tickReady,    \* a tick is buffered in t.C
  box,          \* the local variable box
  samples,      \* every Box sample taken, in order
  ticksTaken,   \* number of ticks received from t.C
  wresult       \* what WaitStableE returned

VARIABLES
  \* --- WaitE
  ppc,          \* position of WaitE
  evals,        \* the outcomes of the evaluations of the predicate, in order
  timerFired,   \* the timer of the current sleep has elapsed
  presult,      \* what WaitE returned
  \* --- ReleaseE
  rpc,          \* position of ReleaseE
  released,     \* the remote object of el.ObjectID is released
  cancelCalled, \* ReleaseE has called el.ctxCancel
  rerr,         \* the local variable err of ReleaseE
  rresult       \* what ReleaseE returned

VARIABLES
  \* --- interaction chains
  cop,          \* the chain that was called
  cbutton,      \* the argument button of ClickE
  cidx,         \* index of the next step of the chain
  issued,       \* the steps issued to the collaborators, in order
  cbox,         \* the Box a step of the chain obtained
  cresult,      \* what the chain returned
  \* --- BoxE
  bpc,          \* position of BoxE
  quad,         \* res.Model.Content of the box-model query
  qerr,         \* the error of the box-model query
  bres,         \* the *Box BoxE returned: <<>> for nil, else <<box>>
  berr          \* the error BoxE returned

VARIABLES
  \* --- ResourceE, one entry per call
  respc,        \* position of the call
  resfail,      \* the step of the call that failed, or "none"
  reserr,       \* the error the call's return statement returns
  relerr,       \* the error of the call's disable of the domain
  resresult,    \* the errors the caller gets: <<>> for nil
  enables,      \* number of times the call enabled the domain
  disables,     \* number of times the call disabled the domain
  domainOn      \* the page's domain is enabled

frameVars == <<n, parent, resolves, pc, has, stack, elPage, elObjectID,
               calls, enumerated, walkErr, result>>
stableVars == <<wpc, ctxDone, tickReady, box, samples, ticksTaken, wresult>>
stableRest == <<wpc, tickReady, box, samples, ticksTaken, wresult>>
pollVars == <<ppc, evals, timerFired, presult, rpc, released, cancelCalled,
              rerr, rresult>>
chainVars == <<cop, cbutton, cidx, issued, cbox, cresult>>
boxVars == <<bpc, quad, qerr, bres, berr>>
resVars == <<respc, resfail, reserr, relerr, resresult, enables, disables,
             domainOn>>
vars == <<frameVars, stableVars, pollVars, chainVars, boxVars, resVars>>
notFrameVars == <<stableVars, pollVars, chainVars, boxVars, resVars>>
notStableVars == <<frameVars, pollVars, chainVars, boxVars, resVars>>
notPollVars == <<frameVars, stableRest, chainVars, boxVars, resVars>>
notChainVars == <<frameVars, stableVars, pollVars, boxVars, resVars>>
notBoxVars == <<frameVars, stableVars, pollVars, chainVars, resVars>>
notResVars == <<frameVars, stableVars, pollVars, chainVars, boxVars>>

\* ------------------------------------------------------------ frame tree
Frames == 1..n

\* the trees over k iframes: iframe f lies in the root page or in an
\* earlier iframe; the iframes of one frame are in document order by id
Trees(k) == {p \in [1..k -> 0..k] : \A f \in 1..k : p[f] < f}

RECURSIVE SortedSeq(_)
SortedSeq(S) ==
  IF S = {} THEN <<>>
  ELSE LET m == CHOOSE x \in S : \A y \in S : x <= y
       IN <<m>> \o SortedSeq(S \ {m})

SeqRange(s) == {s[k] : k \in 1..Len(s)}

\* page.ElementsE("", "iframe"): the iframe elements of a frame, in
\* document order
ElementsE(page) == SortedSeq({f \in Frames : parent[f] = page})

\* p.resolveNode(nodeID) in the context of iframe f
resolveNode(f) == IF f \in resolves THEN ObjIn(f) ELSE EmptyID

\* a check of the error alone, blind to the id that came back
MatchedAlways(objID) == TRUE

\* line 519: objID != ""
Matched(objID) == objID /= EmptyID

\* a walk that hands a non-nil result of walk(p) up before the release
ReleaseOnlyOnNil(err) == err = Nil

\* lines 525-527: f.ReleaseE() follows walk(p) whatever walk(p) returned
ReleaseAfterWalk(err) == TRUE

\* lines 525-527: err = walk(p) is overwritten by err = f.ReleaseE()
ErrAfterRelease(nested, rel) == rel

\* the test of has inverted
SkipWalkInverted(h) == h = "no"

\* line 500: if has { return nil }
SkipWalk(h) == h = "yes"

\* lines 540-543: io.EOF from the walk is turned into nil
SentinelCheck(err) == IF err = EOF THEN Nil ELSE err

\* ------------------------------------------------------- ensureParentPage
Faults == Cardinality({k \in 1..Len(calls) : calls[k].out \in CallErrors})
         + (IF has \in CallErrors THEN 1 ELSE 0)

\* the errors the next collaborator call may fail with
MayFail == IF Faults < MaxFaults THEN CallErrors ELSE {}

NewWalk(page) == [page |-> page, list |-> <<>>, i |-> 0, err |-> Nil,
                  pc |-> "enum"]

Top == stack[Len(stack)]
SetTop(rec) == [stack EXCEPT ![Len(stack)] = rec]
Call(op, f, out) == [op |-> op, frame |-> f, out |-> out]

\* return e from the innermost walk: to the walk that called it (err =
\* walk(p), line 525) or to ensureParentPage (lines 539-543)
ReturnFromWalk(e) ==
  IF Len(stack) = 1
  THEN /\ stack' = <<>>
       /\ walkErr' = e
       /\ result' = SentinelCheck(e)
       /\ pc' = "done"
  ELSE /\ stack' = SubSeq(stack, 1, Len(stack) - 2)
                    \o <<[stack[Len(stack) - 1] EXCEPT !.err = e]>>
       /\ UNCHANGED <<walkErr, result, pc>>

\* lines 496-502, 539: has, err := el.page.hasElement(objID)
HasElement ==
  /\ pc = "hasElement"
  /\ \E r \in {"yes", "no"} \cup MayFail :
       /\ has' = r
       /\ IF r \in CallErrors
          THEN /\ result' = r
               /\ pc' = "done"
               /\ UNCHANGED stack
          ELSE IF SkipWalk(r)
          THEN /\ result' = Nil
               /\ pc' = "done"
               /\ UNCHANGED stack
          ELSE /\ stack' = <<NewWalk(elPage)>>
               /\ pc' = "walk"
               /\ UNCHANGED result
  /\ UNCHANGED <<n, parent, resolves, elPage, elObjectID, calls, enumerated,
                 walkErr>>
  /\ UNCHANGED notFrameVars

\* lines 507-512: list, err := page.ElementsE("", "iframe")
Enumerate ==
  /\ pc = "walk"
  /\ Top.pc = "enum"
  /\ \E out \in {"ok"} \cup MayFail :
       /\ calls' = Append(calls, Call("ElementsE", Top.page, out))
       /\ IF out \in CallErrors
          THEN /\ ReturnFromWalk(out)
               /\ UNCHANGED enumerated
          ELSE LET list == ElementsE(Top.page)
               IN /\ enumerated' = enumerated \cup SeqRange(list)
                  /\ IF list = <<>>
                     THEN ReturnFromWalk(Nil)
                     ELSE /\ stack' = SetTop([Top EXCEPT !.list = list,
                                                         !.i = 1,
                                                         !.pc = "resolve"])
                          /\ UNCHANGED <<walkErr, result, pc>>
  /\ UNCHANGED <<n, parent, resolves, has, elPage, elObjectID>>
  /\ UNCHANGED notFrameVars

\* lines 513-525: p := f.Frame(); objID, err := p.resolveNode(nodeID); on a
\* non-empty id rebind and return io.EOF, else call walk(p)
ResolveNode ==
  /\ pc = "walk"
  /\ Top.pc = "resolve"
  /\ LET f == Top.list[Top.i]
     IN \E out \in {"ok"} \cup MayFail :
          IF out \in CallErrors
          THEN /\ calls' = Append(calls, Call("resolveNode", f, out))
               /\ ReturnFromWalk(out)
               /\ UNCHANGED <<elPage, elObjectID>>
          ELSE LET objID == resolveNode(f)
               IN IF Matched(objID)
                  THEN /\ calls' = Append(calls, Call("resolveNode", f, "match"))
                       /\ elPage' = f
                       /\ elObjectID' = objID
                       /\ ReturnFromWalk(EOF)
                  ELSE /\ calls' = Append(calls, Call("resolveNode", f, "empty"))
                       /\ stack' = Append(SetTop([Top EXCEPT !.pc = "afterWalk"]),
                                          NewWalk(f))
                       /\ UNCHANGED <<elPage, elObjectID, walkErr, result, pc>>
  /\ UNCHANGED <<n, parent, resolves, has, enumerated>>
  /\ UNCHANGED notFrameVars

\* lines 527-536: err = f.ReleaseE(); return it when it is not nil, else go
\* on with the next iframe of the list, and return nil after the last
Release ==
  /\ pc = "walk"
  /\ Top.pc = "afterWalk"
  /\ LET f == Top.list[Top.i]
     IN IF ReleaseAfterWalk(Top.err)
        THEN \E out \in {"ok"} \cup MayFail :
               LET err == ErrAfterRelease(Top.err,
                                          IF out = "ok" THEN Nil ELSE out)
               IN /\ calls' = Append(calls, Call("ReleaseE", f, out))
                  /\ IF err /= Nil
                     THEN ReturnFromWalk(err)
                     ELSE IF Top.i = Len(Top.list)
                     THEN ReturnFromWalk(Nil)
                     ELSE /\ stack' = SetTop([Top EXCEPT !.err = err,
                                                         !.i = Top.i + 1,
                                                         !.pc = "resolve"])
                          /\ UNCHANGED <<walkErr, result, pc>>
        ELSE /\ ReturnFromWalk(Top.err)
             /\ UNCHANGED calls
  /\ UNCHANGED <<n, parent, resolves, has, elPage, elObjectID, enumerated>>
  /\ UNCHANGED notFrameVars

\* the state at the call of ensureParentPage, for a tree of k iframes
FrameInit(k) ==
  /\ n = k
  /\ parent \in Trees(k)
  /\ resolves \in SUBSET (1..k)
  /\ pc = "hasElement"
  /\ has = "unknown"
  /\ stack = <<>>
  /\ elPage = RootPage
  /\ elObjectID = OrigID
  /\ calls = <<>>
  /\ enumerated = {}
  /\ walkErr = Nil
  /\ result = "pending"

\* WaitStableE not called
StableIdle ==
  /\ wpc = "idle"
  /\ ctxDone = FALSE
  /\ tickReady = FALSE
  /\ box = Box(0, 0, 0, 0)
  /\ samples = <<>>
  /\ ticksTaken = 0
  /\ wresult = "pending"

\* WaitE and ReleaseE not called
PollIdle ==
  /\ ppc = "idle"
  /\ evals = <<>>
  /\ timerFired = FALSE
  /\ presult = "pending"
  /\ rpc = "idle"
  /\ released = FALSE
  /\ cancelCalled = FALSE
  /\ rerr = Nil
  /\ rresult = "pending"

\* no interaction chain called
ChainIdle ==
  /\ cop = "none"
  /\ cbutton = "left"
  /\ cidx = 0
  /\ issued = <<>>
  /\ cbox = Box(0, 0, 0, 0)
  /\ cresult = "pending"

\* BoxE not called
BoxIdle ==
  /\ bpc = "idle"
  /\ quad = <<>>
  /\ qerr = Nil
  /\ bres = <<>>
  /\ berr = Nil

ResProcs == 1..ResCalls

\* the state before a step of any ResourceE call, with the calls at
\* position at
ResStart(at) ==
  /\ respc = [p \in ResProcs |-> at]
  /\ resfail = [p \in ResProcs |-> "none"]
  /\ reserr = [p \in ResProcs |-> Nil]
  /\ relerr = [p \in ResProcs |-> Nil]
  /\ resresult = [p \in ResProcs |-> <<>>]
  /\ enables = [p \in ResProcs |-> 0]
  /\ disables = [p \in ResProcs |-> 0]
  /\ domainOn = FALSE

\* ResourceE not called
ResIdle == ResStart("idle")

Init ==
  /\ \E k \in 0..MaxFrames : FrameInit(k)
  /\ ResIdle
  /\ StableIdle
  /\ PollIdle
  /\ ChainIdle
  /\ BoxIdle

Next ==
  \/ HasElement
  \/ Enumerate
  \/ ResolveNode
  \/ Release

Spec == Init /\ [][Next]_vars

\* ensureParentPage not called
FrameIdle ==
  /\ n = 0
  /\ parent = <<>>
  /\ resolves = {}
  /\ pc = "idle"
  /\ has = "unknown"
  /\ stack = <<>>
  /\ elPage = RootPage
  /\ elObjectID = OrigID
  /\ calls = <<>>
  /\ enumerated = {}
  /\ walkErr = Nil
  /\ result = "pending"

\* ------------------------------------------------------------ WaitStableE
\* the boxes el.Box() can yield: one box and, for each of the four fields,
\* a box that differs from it in that field alone
Boxes == {Box(10, 20, 100, 50), Box(11, 20, 100, 50), Box(10, 21, 100, 50),
          Box(10, 20, 101, 50), Box(10, 20, 100, 51)}

\* a comparison of the position alone
BoxPositionEq(a, b) == a.Top = b.Top /\ a.Left = b.Left

\* line 323: *box == *current, the equality of two structs of four floats
BoxEq(a, b) ==
  /\ a.Top = b.Top
  /\ a.Left = b.Left
  /\ a.Width = b.Width
  /\ a.Height = b.Height

\* lines 306-309: err := el.WaitVisibleE(); a non-nil error is returned
WaitVisible ==
  /\ wpc = "waitVisible"
  /\ \E err \in {Nil, ProtocolError} \cup (IF ctxDone THEN {Canceled} ELSE {}) :
       IF err /= Nil
       THEN /\ wresult' = err
            /\ wpc' = "done"
       ELSE /\ wpc' = "firstBox"
            /\ UNCHANGED wresult
  /\ UNCHANGED <<ctxDone, tickReady, box, samples, ticksTaken>>
  /\ UNCHANGED notStableVars

\* lines 311-314: box := el.Box(); t := time.NewTicker(interval)
FirstBox ==
  /\ wpc = "firstBox"
  /\ \E b \in Boxes :
       /\ box' = b
       /\ samples' = <<b>>
  /\ wpc' = "range"
  /\ UNCHANGED <<ctxDone, tickReady, ticksTaken, wresult>>
  /\ UNCHANGED notStableVars

\* the ticker puts a tick into t.C, whose buffer holds one tick
Tick ==
  /\ wpc \in {"range", "select", "sample"}
  /\ ~tickReady
  /\ tickReady' = TRUE
  /\ UNCHANGED <<wpc, ctxDone, box, samples, ticksTaken, wresult>>
  /\ UNCHANGED notStableVars

\* the element's scope is canceled
Cancel ==
  /\ wpc /= "done"
  /\ ~ctxDone
  /\ ctxDone' = TRUE
  /\ UNCHANGED <<wpc, tickReady, box, samples, ticksTaken, wresult>>
  /\ UNCHANGED notStableVars

\* line 316: for range t.C receives a tick
RangeRecv ==
  /\ wpc = "range"
  /\ tickReady
  /\ tickReady' = FALSE
  /\ ticksTaken' = ticksTaken + 1
  /\ wpc' = "select"
  /\ UNCHANGED <<ctxDone, box, samples, wresult>>
  /\ UNCHANGED notStableVars

\* lines 317-318: select, case <-t.C
SelectTick ==
  /\ wpc = "select"
  /\ tickReady
  /\ tickReady' = FALSE
  /\ ticksTaken' = ticksTaken + 1
  /\ wpc' = "sample"
  /\ UNCHANGED <<ctxDone, box, samples, wresult>>
  /\ UNCHANGED notStableVars

\* lines 319-320: select, case <-el.ctx.Done(): return el.ctx.Err()
SelectDone ==
  /\ wpc = "select"
  /\ ctxDone
  /\ wresult' = Canceled
  /\ wpc' = "done"
  /\ UNCHANGED <<ctxDone, tickReady, box, samples, ticksTaken>>
  /\ UNCHANGED notStableVars

\* lines 322-328: current := el.Box(); on *box == *current leave the loop
\* and return nil, else box = current
Sample ==
  /\ wpc = "sample"
  /\ Len(samples) < MaxSamples
  /\ \E current \in Boxes :
       /\ samples' = Append(samples, current)
       /\ IF BoxEq(box, current)
          THEN /\ wresult' = Nil
               /\ wpc' = "done"
               /\ UNCHANGED box
          ELSE /\ box' = current
               /\ wpc' = "range"
               /\ UNCHANGED wresult
  /\ UNCHANGED <<ctxDone, tickReady, ticksTaken>>
  /\ UNCHANGED notStableVars

\* the state at the call of WaitStableE
InitStable ==
  /\ FrameIdle
  /\ ResIdle
  /\ PollIdle
  /\ ChainIdle
  /\ BoxIdle
  /\ wpc = "waitVisible"
  /\ ctxDone = FALSE
  /\ tickReady = FALSE
  /\ box = Box(0, 0, 0, 0)
  /\ samples = <<>>
  /\ ticksTaken = 0
  /\ wresult = "pending"

NextStable ==
  \/ WaitVisible
  \/ FirstBox
  \/ Tick
  \/ Cancel
  \/ RangeRecv
  \/ SelectTick
  \/ SelectDone
  \/ Sample

SpecStable == InitStable /\ [][NextStable]_vars

\* ------------------------------------------------------ WaitE and ReleaseE
\* what one evaluation of the predicate can come to: the value of
\* res.Value.Bool(), or the error of el.EvalE
EvalOutcomes ==
  {"true", "false", ProtocolError} \cup (IF ctxDone THEN {Canceled} ELSE {})

\* a callback that asks for another try after a failed evaluation
WaitFnRetryOnError(o) ==
  IF o \notin {"true", "false"} THEN [stop |-> FALSE, err |-> o]
  ELSE IF o = "true" THEN [stop |-> TRUE, err |-> Nil]
  ELSE [stop |-> FALSE, err |-> Nil]

\* lines 333-344: the function WaitE hands to kit.Retry
WaitFn(o) ==
  IF o \notin {"true", "false"} THEN [stop |-> TRUE, err |-> o]
  ELSE IF o = "true" THEN [stop |-> TRUE, err |-> Nil]
  ELSE [stop |-> FALSE, err |-> Nil]

\* a sleeper that waits for its timer alone
SleeperBlind(done) == FALSE

\* Sleeper(): the sleep between two tries ends with the context's error
\* when the context is done
SleeperSeesCancel(done) == done

\* a release that cancels the scope whatever the remote release returned
CancelScopeAlways(err) == TRUE

\* lines 477-481: el.ctxCancel() is reached only past the return on err
CancelScope(err) == err = Nil

\* lines 333-344: kit.Retry calls the function; it returns the function's
\* error when the function says stop, else it sleeps
PollEval ==
  /\ ppc = "eval"
  /\ Len(evals) < MaxPolls
  /\ \E o \in EvalOutcomes :
       /\ evals' = Append(evals, o)
       /\ IF WaitFn(o).stop
          THEN /\ presult' = WaitFn(o).err
               /\ ppc' = "done"
               /\ UNCHANGED timerFired
          ELSE /\ ppc' = "sleep"
               /\ timerFired' = FALSE
               /\ UNCHANGED presult
  /\ UNCHANGED <<rpc, released, cancelCalled, rerr, rresult, ctxDone>>
  /\ UNCHANGED notPollVars

\* the timer of the sleep elapses
TimerFire ==
  /\ ppc = "sleep"
  /\ ~timerFired
  /\ timerFired' = TRUE
  /\ UNCHANGED <<ppc, evals, presult, rpc, released, cancelCalled, rerr,
                 rresult, ctxDone>>
  /\ UNCHANGED notPollVars

\* the sleep ends with its timer and kit.Retry tries again
SleepElapsed ==
  /\ ppc = "sleep"
  /\ timerFired
  /\ ppc' = "eval"
  /\ UNCHANGED <<evals, timerFired, presult, rpc, released, cancelCalled,
                 rerr, rresult, ctxDone>>
  /\ UNCHANGED notPollVars

\* the sleep ends with the context's error, which kit.Retry returns
SleepCanceled ==
  /\ ppc = "sleep"
  /\ SleeperSeesCancel(ctxDone)
  /\ presult' = Canceled
  /\ ppc' = "done"
  /\ UNCHANGED <<evals, timerFired, rpc, released, cancelCalled, rerr,
                 rresult, ctxDone>>
  /\ UNCHANGED notPollVars

\* lines 476-479: err := el.page.Context(...).ReleaseE(el.ObjectID); a
\* non-nil err is returned
ReleaseRemote ==
  /\ rpc = "release"
  /\ \E err \in {Nil, ProtocolError} \cup (IF ctxDone THEN {Canceled} ELSE {}) :
       /\ rerr' = err
       /\ released' = (err = Nil)
       /\ IF CancelScope(err)
          THEN /\ rpc' = "cancel"
               /\ UNCHANGED rresult
          ELSE /\ rpc' = "done"
               /\ rresult' = err
  /\ UNCHANGED <<ppc, evals, timerFired, presult, cancelCalled, ctxDone>>
  /\ UNCHANGED notPollVars

\* lines 481-482: el.ctxCancel(); return nil
ReleaseCancel ==
  /\ rpc = "cancel"
  /\ ctxDone' = TRUE
  /\ cancelCalled' = TRUE
  /\ rresult' = rerr
  /\ rpc' = "done"
  /\ UNCHANGED <<ppc, evals, timerFired, presult, released, rerr>>
  /\ UNCHANGED notPollVars

\* the state with WaitE and ReleaseE called on one element
InitPoll ==
  /\ FrameIdle
  /\ ResIdle
  /\ StableIdle
  /\ ChainIdle
  /\ BoxIdle
  /\ ppc = "eval"
  /\ evals = <<>>
  /\ timerFired = FALSE
  /\ presult = "pending"
  /\ rpc \in {"idle", "release"}
  /\ released = FALSE
  /\ cancelCalled = FALSE
  /\ rerr = Nil
  /\ rresult = "pending"

NextPoll ==
  \/ PollEval
  \/ TimerFire
  \/ SleepElapsed
  \/ SleepCanceled
  \/ Cancel
  \/ ReleaseRemote
  \/ ReleaseCancel

SpecPoll == InitPoll /\ [][NextPoll]_vars

\* ------------------------------------------------------------------ BoxE
\* the coordinates of a content quadrilateral; all are even, so that the
\* halving of a width or height is exact, as it is in float64
Coords == {10, 20, 60, 120}

\* res.Model.Content: x1, y1, ..., x4, y4
Quads == [1..8 -> Coords]

\* a Box taken from the first and third corner of the quadrilateral
BoxEOppositeCorner(q) == Box(q[2], q[1], q[5] - q[1], q[6] - q[2])

\* lines 373-378: Content[0], Content[1], Content[2], Content[7] of Go are
\* q[1], q[2], q[3], q[8] here
BoxE(q) == Box(q[2], q[1], q[3] - q[1], q[8] - q[2])

\* lines 369-378: res, err := proto.DOMGetBoxModel{...}.Call(el)
BoxECall ==
  /\ bpc = "call"
  /\ IF qerr /= Nil
     THEN /\ bres' = <<>>
          /\ berr' = qerr
     ELSE /\ bres' = <<BoxE(quad)>>
          /\ berr' = Nil
  /\ bpc' = "done"
  /\ UNCHANGED <<quad, qerr>>
  /\ UNCHANGED notBoxVars

\* the state at the call of BoxE: what the box-model query will answer
InitBox ==
  /\ FrameIdle
  /\ ResIdle
  /\ StableIdle
  /\ PollIdle
  /\ ChainIdle
  /\ bpc = "call"
  /\ quad \in Quads
  /\ qerr \in {Nil, ProtocolError, Canceled}
  /\ bres = <<>>
  /\ berr = Nil

NextBox == BoxECall

SpecBox == InitBox /\ [][NextBox]_vars

\* ---------------------------------------------------- interaction chains
\* the errors a step of a chain can fail with
ChainErrors == {ProtocolError, Canceled}

\* lines 30-38: FocusE
FocusESteps == <<"ScrollIntoView", "EvalFocus">>
\* lines 49-76: ClickE
ClickESteps == <<"WaitVisible", "ScrollIntoView", "GetBoxModel", "MouseMove",
                 "MouseClick">>
\* lines 79-93: PressE
PressESteps == <<"WaitVisible">> \o FocusESteps \o <<"KeyPress">>
\* lines 96-108: SelectTextE
SelectTextESteps == FocusESteps \o <<"EvalSelectText">>
\* lines 111-123: SelectAllTextE
SelectAllTextESteps == FocusESteps \o <<"EvalSelectAllText">>
\* lines 126-147: InputE
InputESteps == <<"WaitVisible">> \o FocusESteps
                 \o <<"InsertText", "EvalInputEvent">>
\* lines 156-170: SelectE
SelectESteps == <<"WaitVisible", "EvalSelect">>

Chains == {"FocusE", "ClickE", "PressE", "SelectTextE", "SelectAllTextE",
           "InputE", "SelectE"}

Steps(op) ==
  CASE op = "FocusE" -> FocusESteps
    [] op = "ClickE" -> ClickESteps
    [] op = "PressE" -> PressESteps
    [] op = "SelectTextE" -> SelectTextESteps
    [] op = "SelectAllTextE" -> SelectAllTextESteps
    [] op = "InputE" -> InputESteps
    [] op = "SelectE" -> SelectESteps

\* the step the chain is at
CurrentStep ==
  IF cop \in Chains /\ cresult = "pending" THEN Steps(cop)[cidx] ELSE "none"

\* a chain that goes on after a failed step
AbortNever(err) == FALSE

\* if err != nil { return err }, after every step of every chain
AbortOn(err) == err /= Nil

\* the middle of the two far corners
ClickPointOfSum(b) == <<(b.Left + b.Width) \div 2, (b.Top + b.Height) \div 2>>

\* lines 65-66: x := box.Left + box.Width/2; y := box.Top + box.Height/2
ClickPoint(b) == <<b.Left + (b.Width \div 2), b.Top + (b.Height \div 2)>>

\* a step was issued with arguments arg and came back with err: the chain
\* returns err when it is not nil, returns nil after its last step, and
\* else goes on to its next step
Proceed(arg, err) ==
  /\ issued' = Append(issued, [step |-> CurrentStep, arg |-> arg, err |-> err])
  /\ IF AbortOn(err)
     THEN /\ cresult' = err
          /\ UNCHANGED cidx
     ELSE IF cidx = Len(Steps(cop))
     THEN /\ cresult' = err
          /\ UNCHANGED cidx
     ELSE /\ cidx' = cidx + 1
          /\ UNCHANGED cresult
  /\ UNCHANGED <<cop, cbutton>>
  /\ UNCHANGED notChainVars

\* el.WaitVisibleE(), lines 50, 80, 127, 157
StepWaitVisible ==
  /\ CurrentStep = "WaitVisible"
  /\ \E err \in {Nil} \cup ChainErrors : Proceed(<<>>, err)
  /\ UNCHANGED cbox

\* el.ScrollIntoViewE(), lines 31, 55
StepScrollIntoView ==
  /\ CurrentStep = "ScrollIntoView"
  /\ \E err \in {Nil} \cup ChainErrors : Proceed(<<>>, err)
  /\ UNCHANGED cbox

\* el.EvalE(true, js, jsArgs), lines 36, 106, 121, 145, 168
StepEval ==
  /\ CurrentStep \in {"EvalFocus", "EvalSelectText", "EvalSelectAllText",
                      "EvalInputEvent", "EvalSelect"}
  /\ \E err \in {Nil} \cup ChainErrors : Proceed(<<>>, err)
  /\ UNCHANGED cbox

\* box, err := el.BoxE(), lines 60-63
StepBox ==
  /\ CurrentStep = "GetBoxModel"
  /\ \/ \E err \in ChainErrors :
          /\ Proceed(<<>>, err)
          /\ UNCHANGED cbox
     \/ \E q \in Quads :
          /\ Proceed(<<>>, Nil)
          /\ cbox' = BoxE(q)

\* el.page.Mouse.MoveE(x, y, 1), lines 65-71
StepMouseMove ==
  /\ CurrentStep = "MouseMove"
  /\ \E err \in {Nil} \cup ChainErrors : Proceed(ClickPoint(cbox) \o <<1>>, err)
  /\ UNCHANGED cbox

\* el.page.Mouse.ClickE(button), line 75
StepMouseClick ==
  /\ CurrentStep = "MouseClick"
  /\ \E err \in {Nil} \cup ChainErrors : Proceed(<<cbutton>>, err)
  /\ UNCHANGED cbox

\* el.page.Keyboard.PressE(key), line 92
StepKeyPress ==
  /\ CurrentStep = "KeyPress"
  /\ \E err \in {Nil} \cup ChainErrors : Proceed(<<>>, err)
  /\ UNCHANGED cbox

\* el.page.Keyboard.InsertTextE(text), lines 139-142
StepInsertText ==
  /\ CurrentStep = "InsertText"
  /\ \E err \in {Nil} \cup ChainErrors : Proceed(<<>>, err)
  /\ UNCHANGED cbox

\* the state at the call of one of the chains
InitChain ==
  /\ FrameIdle
  /\ ResIdle
  /\ StableIdle
  /\ PollIdle
  /\ BoxIdle
  /\ cop \in Chains
  /\ cbutton \in {"left", "right"}
  /\ cidx = 1
  /\ issued = <<>>
  /\ cbox = Box(0, 0, 0, 0)
  /\ cresult = "pending"

NextChain ==
  \/ StepWaitVisible
  \/ StepScrollIntoView
  \/ StepEval
  \/ StepBox
  \/ StepMouseMove
  \/ StepMouseClick
  \/ StepKeyPress
  \/ StepInsertText

SpecChain == InitChain /\ [][NextChain]_vars

\* -------------------------------------------------------------- ResourceE
\* the error of the base64 decoding
DecodeError == "DecodeError"
\* the error of a failed disable of the domain
DisableError == "DisableError"

\* a disable that is called on the success path alone
RestoreOnSuccess(err) == err = Nil

\* line 409: the function EnableDomain returned is deferred, so it runs at
\* every return below line 409, whatever is returned
RestoreOnReturn(err) == TRUE

\* lines 402, 409: the results of ResourceE are unnamed and the deferred
\* call's outcome is discarded, so the caller gets the error of the return
\* statement
ReturnedError(err, rel) == IF err = Nil THEN <<>> ELSE <<err>>

\* call p returns err from a return statement below line 409
ResReturn(p, err, at) ==
  /\ reserr' = [reserr EXCEPT ![p] = err]
  /\ resfail' = [resfail EXCEPT ![p] = IF err = Nil THEN "none" ELSE at]
  /\ IF RestoreOnReturn(err)
     THEN /\ respc' = [respc EXCEPT ![p] = "restore"]
          /\ UNCHANGED resresult
     ELSE /\ respc' = [respc EXCEPT ![p] = "done"]
          /\ resresult' = [resresult EXCEPT ![p] = ReturnedError(err, Nil)]

\* lines 403-407: src, err := el.EvalE(true, js, jsArgs)
ResEval(p) ==
  /\ respc[p] = "eval"
  /\ \E err \in {Nil, ProtocolError} :
       IF err /= Nil
       THEN /\ respc' = [respc EXCEPT ![p] = "done"]
            /\ resfail' = [resfail EXCEPT ![p] = "eval"]
            /\ reserr' = [reserr EXCEPT ![p] = err]
            /\ resresult' = [resresult EXCEPT ![p] = <<err>>]
       ELSE /\ respc' = [respc EXCEPT ![p] = "enable"]
            /\ UNCHANGED <<resfail, reserr, resresult>>
  /\ UNCHANGED <<relerr, enables, disables, domainOn>>
  /\ UNCHANGED notResVars

\* line 409: el.page.EnableDomain(&proto.PageEnable{}) turns the domain on
ResEnable(p) ==
  /\ respc[p] = "enable"
  /\ domainOn' = TRUE
  /\ enables' = [enables EXCEPT ![p] = @ + 1]
  /\ respc' = [respc EXCEPT ![p] = "frameID"]
  /\ UNCHANGED <<resfail, reserr, relerr, resresult, disables>>
  /\ UNCHANGED notResVars

\* lines 411-414: frameID, err := el.page.frameID()
ResFrameID(p) ==
  /\ respc[p] = "frameID"
  /\ \E err \in {Nil, ProtocolError} :
       IF err /= Nil
       THEN ResReturn(p, err, "frameID")
       ELSE /\ respc' = [respc EXCEPT ![p] = "fetch"]
            /\ UNCHANGED <<resfail, reserr, resresult>>
  /\ UNCHANGED <<relerr, enables, disables, domainOn>>
  /\ UNCHANGED notResVars

\* lines 416-436: res, err := proto.PageGetResourceContent{...}.Call(el);
\* content that is not base64 is returned as it is
ResFetch(p) ==
  /\ respc[p] = "fetch"
  /\ \E out \in {"plain", "base64", ProtocolError} :
       IF out = ProtocolError
       THEN ResReturn(p, out, "fetch")
       ELSE IF out = "plain"
       THEN ResReturn(p, Nil, "fetch")
       ELSE /\ respc' = [respc EXCEPT ![p] = "decode"]
            /\ UNCHANGED <<resfail, reserr, resresult>>
  /\ UNCHANGED <<relerr, enables, disables, domainOn>>
  /\ UNCHANGED notResVars

\* lines 427-436: bin, err = base64.StdEncoding.DecodeString(data)
ResDecode(p) ==
  /\ respc[p] = "decode"
  /\ \E err \in {Nil, DecodeError} : ResReturn(p, err, "decode")
  /\ UNCHANGED <<relerr, enables, disables, domainOn>>
  /\ UNCHANGED notResVars

\* line 409: the deferred function turns the domain off, or fails to
ResRestore(p) ==
  /\ respc[p] = "restore"
  /\ \E rel \in {Nil, DisableError} :
       /\ relerr' = [relerr EXCEPT ![p] = rel]
       /\ domainOn' = (rel /= Nil /\ domainOn)
       /\ resresult' = [resresult EXCEPT ![p] = ReturnedError(reserr[p], rel)]
  /\ disables' = [disables EXCEPT ![p] = @ + 1]
  /\ respc' = [respc EXCEPT ![p] = "done"]
  /\ UNCHANGED <<resfail, reserr, enables>>
  /\ UNCHANGED notResVars

\* the state with ResourceE called on ResCalls elements of one page
InitResource ==
  /\ FrameIdle
  /\ StableIdle
  /\ PollIdle
  /\ ChainIdle
  /\ BoxIdle
  /\ ResStart("eval")

NextResource ==
  \E p \in ResProcs :
    \/ ResEval(p)
    \/ ResEnable(p)
    \/ ResFrameID(p)
    \/ ResFetch(p)
    \/ ResDecode(p)
    \/ ResRestore(p)

SpecResource == InitResource /\ [][NextResource]_vars

\* ------------------------------------------------- the walk's call record
CallIdx(op) == {k \in 1..Len(calls) : calls[k].op = op}
\* the resolveNode calls that yielded a non-empty id
MatchIdx == {k \in 1..Len(calls) : calls[k].out = "match"}
\* the iframes whose handle a ReleaseE call released
Released == {calls[k].frame : k \in {j \in CallIdx("ReleaseE") : calls[j].out = "ok"}}
\* the iframes in whose context node resolution was attempted up to call k
VisitedBefore(k) == {calls[j].frame : j \in {i \in CallIdx("resolveNode") : i < k}}
Visited == VisitedBefore(Len(calls) + 1)
FirstMatch == CHOOSE k \in MatchIdx : \A j \in MatchIdx : k <= j

\* iframe d lies, at any depth, inside iframe s
RECURSIVE Under(_, _)
Under(d, s) == d /= RootPage /\ (parent[d] = s \/ Under(parent[d], s))

\* C1: once an iframe context resolves nodeID to a non-empty handle, the
\* walk makes no further resolveNode or ElementsE call, and the binding
\* ensureParentPage returns with is that first match.
C1_FirstMatchStopsSearch ==
  /\ \A k \in MatchIdx : \A j \in (k + 1)..Len(calls) :
        calls[j].op \notin {"resolveNode", "ElementsE"}
  /\ (pc = "done" /\ MatchIdx /= {}) =>
        /\ elPage = calls[FirstMatch].frame
        /\ elObjectID = ObjIn(calls[FirstMatch].frame)

\* C2: when ensureParentPage has returned, every iframe handle that
\* ElementsE handed out is released, except the handle of the iframe the
\* element is now bound to.
C2_AllHandlesReleased ==
  pc = "done" => \A f \in enumerated : f \in Released \/ f = elPage

\* C3: when a collaborator call of the walk failed, ensureParentPage
\* returns an error.
C3_WalkFailureReturned ==
  (pc = "done" /\ \E k \in 1..Len(calls) : calls[k].out \in CallErrors)
     => result /= Nil

\* C4: in a run without failed calls in which exactly one resolveNode call
\* matches, the walk makes one ReleaseE call less than resolveNode calls,
\* and never releases the iframe that matched.
C4_ReleasesOneLessThanVisits ==
  (pc = "done" /\ Faults = 0 /\ Cardinality(MatchIdx) = 1) =>
     /\ Cardinality(CallIdx("ReleaseE")) = Cardinality(CallIdx("resolveNode")) - 1
     /\ \A k \in CallIdx("ReleaseE") : calls[k].frame /= calls[FirstMatch].frame

\* the one match lies two levels deep and the walk went on to a third iframe
C4_Witness ==
  /\ pc = "done" /\ Faults = 0 /\ Cardinality(MatchIdx) = 1
  /\ parent[calls[FirstMatch].frame] /= RootPage
  /\ Cardinality(CallIdx("resolveNode")) >= 3

\* C5: iframes of one frame are tried in the order ElementsE returned them,
\* and when an iframe yields the empty id, every iframe nested in it is
\* tried before its next sibling is tried.
C5_PreOrderDepthFirst ==
  \A k \in CallIdx("resolveNode") :
    \A s \in Frames :
      (parent[s] = parent[calls[k].frame] /\ s < calls[k].frame) =>
         /\ s \in VisitedBefore(k)
         /\ (\E j \in 1..k : calls[j] = Call("resolveNode", s, "empty")) =>
               \A d \in Frames : Under(d, s) => d \in VisitedBefore(k)

\* C6: the walk hands the found signal to ensureParentPage only when its
\* last call was a resolveNode call that matched.
C6_SentinelOnlyOnMatch ==
  (pc = "done" /\ walkErr = EOF) =>
     (calls /= <<>> /\ calls[Len(calls)].out = "match")

\* C7: when hasElement reports the handle in the current frame,
\* ensureParentPage returns nil, has made no call of the walk and has left
\* el.page and el.ObjectID alone.
C7_NoOpWhenHandleInFrame ==
  has = "yes" =>
     /\ pc = "done" /\ result = Nil
     /\ calls = <<>>
     /\ elPage = RootPage /\ elObjectID = OrigID

\* hasElement said yes although the page holds iframes
C7_Witness == has = "yes" /\ pc = "done" /\ n >= 2

\* C8: when no iframe resolves nodeID and no call fails, ensureParentPage
\* returns nil after trying every iframe and leaves el.page and
\* el.ObjectID alone.
C8_ExhaustedIsNotAnError ==
  (pc = "done" /\ has = "no" /\ Faults = 0 /\ resolves = {}) =>
     /\ result = Nil
     /\ Visited = Frames
     /\ elPage = RootPage /\ elObjectID = OrigID

\* a tree with nested iframes was walked to the end without a match
C8_Witness ==
  /\ pc = "done" /\ has = "no" /\ Faults = 0 /\ resolves = {}
  /\ Visited = Frames /\ \E f \in Frames : parent[f] /= RootPage

\* ------------------------------------------------------------ WaitStableE
NoRepeat(s) == \A k \in 1..(Len(s) - 1) : s[k] /= s[k + 1]
LastTwoEqual(s) == Len(s) >= 2 /\ s[Len(s)] = s[Len(s) - 1]

\* C9: once visible, WaitStableE returns nil at the first sample that equals
\* the sample before it in all four fields and never earlier, and when no
\* two consecutive samples are equal it returns only the context's error.
C9_StableAtFirstRepeat ==
  /\ \A k \in 1..(Len(samples) - 2) : samples[k] /= samples[k + 1]
  /\ LastTwoEqual(samples) => (wpc = "done" /\ wresult = Nil)
  /\ wresult = Nil => LastTwoEqual(samples)
  /\ (wpc = "done" /\ samples /= <<>> /\ NoRepeat(samples)) => wresult = Canceled

\* success at the third sample, after two samples that differ in width or
\* height alone
C9_Witness ==
  /\ wresult = Nil
  /\ Len(samples) = 3
  /\ samples[1] /= samples[2]
  /\ BoxPositionEq(samples[1], samples[2])

\* C10: whenever the scope is canceled while WaitStableE waits in its loop,
\* at either of the two places where it waits, WaitStableE can return the
\* context's error at once, with no tick to come and no sample to take.
C10_CancelUnblocksImmediately ==
  (ctxDone /\ wpc \in {"range", "select"}) => ENABLED SelectDone

\* C19: WaitStableE takes one Box sample per tick of its ticker: it never
\* has received more ticks than it has taken samples, so no tick is
\* received without a sample being taken for it.
C19_OneSamplePerTick ==
  samples /= <<>> => ticksTaken <= Len(samples)

\* ------------------------------------------------------ WaitE and ReleaseE
LastEval == evals[Len(evals)]

\* C11: WaitE returns nil as soon as an evaluation yields true, returns the
\* evaluation's error as soon as an evaluation fails, and otherwise returns
\* only the context's error; only an evaluation that yields false is
\* followed by a sleep and another evaluation.
C11_PollTerminatesThreeWays ==
  /\ \A k \in 1..(Len(evals) - 1) : evals[k] = "false"
  /\ (evals /= <<>> /\ LastEval = "true") => (ppc = "done" /\ presult = Nil)
  /\ (evals /= <<>> /\ LastEval \notin {"true", "false"}) =>
        (ppc = "done" /\ presult = LastEval)
  /\ ppc = "sleep" => (evals /= <<>> /\ LastEval = "false")
  /\ ppc = "done" =>
        /\ evals /= <<>>
        /\ presult = Nil => LastEval = "true"
        /\ LastEval = "false" => (presult = Canceled /\ ctxDone)

\* the third evaluation failed after two that yielded false
C11_Witness ==
  /\ ppc = "done"
  /\ evals = <<"false", "false", ProtocolError>>
  /\ presult = ProtocolError

C20_ReleaseThenCancel ==
  /\ cancelCalled => (released /\ ctxDone)
  /\ rresult = Nil => (released /\ cancelCalled /\ ctxDone)
  /\ (rpc = "done" /\ rerr /= Nil) =>
        (rresult = rerr /\ ~released /\ ~cancelCalled)
  /\ rpc = "done" => rresult = rerr

\* the remote release failed while the scope was live, and it still is
C20_Witness ==
  rpc = "done" /\ rresult = ProtocolError /\ ~ctxDone /\ ppc = "sleep"

\* ---------------------------------------------------- interaction chains
\* C13: ClickE issues WaitVisible, ScrollIntoView, the box-model query, the
\* mouse move and the button event in this order; the move goes to
\* (left + width/2, top + height/2) of the Box of the query, in 1 step;
\* for Box {top 10, left 20, width 100, height 50} it goes to (70, 35).
C13_ClickOrderAndPoint ==
  cop = "ClickE" =>
    /\ Len(issued) <= 5
    /\ \A k \in 1..Len(issued) :
         issued[k].step = <<"WaitVisible", "ScrollIntoView", "GetBoxModel",
                            "MouseMove", "MouseClick">>[k]
    /\ Len(issued) >= 4 =>
         /\ Len(issued[4].arg) = 3
         /\ 2 * (issued[4].arg[1] - cbox.Left) = cbox.Width
         /\ 2 * (issued[4].arg[2] - cbox.Top) = cbox.Height
         /\ issued[4].arg[3] = 1
         /\ cbox = Box(10, 20, 100, 50) => issued[4].arg = <<70, 35, 1>>

\* ClickE went through on the Box of the example
C13_Witness ==
  /\ cop = "ClickE" /\ cresult = Nil
  /\ cbox = Box(10, 20, 100, 50)
  /\ Len(issued) = 5 /\ issued[5].step = "MouseClick"

\* C14: in every chain a failed step is the last step issued, and the chain
\* returns that step's error; a chain that returned nil issued no failed
\* step.
C14_FailedStepAbortsChain ==
  /\ \A k \in 1..(Len(issued) - 1) : issued[k].err = Nil
  /\ (issued /= <<>> /\ issued[Len(issued)].err /= Nil) =>
        cresult = issued[Len(issued)].err
  /\ cresult \in ChainErrors =>
        (issued /= <<>> /\ issued[Len(issued)].err = cresult)
  /\ \A j \in 1..Len(issued) : \A k \in 1..Len(issued) :
        (j /= k) => issued[j].step /= issued[k].step

\* InputE gave up at the failed text insertion, with no input event issued
C14_Witness ==
  /\ cop = "InputE" /\ cresult = Canceled
  /\ Len(issued) = 4 /\ issued[4].step = "InsertText"

\* ------------------------------------------------------------------ BoxE
\* C18: BoxE returns Box{Left: q1, Top: q2, Width: q3 - q1, Height: q8 - q2}
\* for the quadrilateral q of the box-model query, and the query's error
\* with no Box when the query fails.
C18_BoxFromQuad ==
  bpc = "done" =>
    IF qerr = Nil
    THEN /\ berr = Nil
         /\ bres = <<[Left |-> quad[1], Top |-> quad[2],
                      Width |-> quad[3] - quad[1],
                      Height |-> quad[8] - quad[2]]>>
    ELSE /\ berr = qerr
         /\ bres = <<>>

\* a quadrilateral that is no rectangle: its third and fourth corner differ
\* from what the first two and the Box would give
C18_Witness ==
  /\ bpc = "done" /\ qerr = Nil
  /\ quad = <<20, 10, 120, 10, 60, 20, 10, 60>>
  /\ bres = <<Box(10, 20, 100, 50)>>

\* -------------------------------------------------------------- ResourceE
\* C15: a call of ResourceE that enabled the domain has disabled it exactly
\* once when it returns, whichever step failed, and never disables it more
\* than once; a call whose read of the source URL failed never enabled it.
C15_DisableExactlyOnce ==
  \A p \in ResProcs :
    /\ disables[p] <= enables[p]
    /\ enables[p] <= 1
    /\ (respc[p] = "done" /\ enables[p] = 1) => disables[p] = 1
    /\ resfail[p] = "eval" => (enables[p] = 0 /\ disables[p] = 0)

\* a call whose content fetch failed has returned
C15_Witness ==
  \E p \in ResProcs :
    /\ respc[p] = "done" /\ resfail[p] = "fetch"
    /\ enables[p] = 1 /\ disables[p] = 1

\* C16: the domain is enabled for as long as any call is between its enable
\* and its disable.
C16_DomainOnWhileInUse ==
  (\E p \in ResProcs : respc[p] \in {"frameID", "fetch", "decode", "restore"})
     => domainOn

\* C17: when the protected region of a call failed and the disable failed
\* too, the caller gets both errors.
C17_ReleaseFailureCombined ==
  \A p \in ResProcs :
    (respc[p] = "done" /\ reserr[p] /= Nil /\ relerr[p] /= Nil) =>
       resresult[p] = <<reserr[p], relerr[p]>>

====
